---- MODULE Spec2Model ----
(***************************************************************************)
(* A model of shadb (src/shadb.py): a document store whose durable state   *)
(* is a git working tree of JSON files and whose secondary indices are     *)
(* SQLite tables kept up to date from git diffs plus a list of pending     *)
(* paths.                                                                  *)
(*                                                                         *)
(* The git client is modelled by what the commands the code issues do to   *)
(* three trees: the working tree (disk), the staging area (staged) and the *)
(* committed trees (commits).  A tree maps every path to the content of    *)
(* the file at that path, or to Absent.  A file's content is the JSON      *)
(* object json.dump wrote, which json.load reads back unchanged for the    *)
(* string-valued objects used here.                                        *)
(***************************************************************************)
EXTENDS Integers, Sequences, FiniteSets, Bags, TLC

\* ---------------------------------------------------------------- bounds
MaxCommits == 2     \* commits in the repository, the initial one included
MaxFns     == 2     \* length of a Commit object's pending list _fns
MaxObjects == 2     \* documents passed to one store call
MaxDelete  == 2     \* paths passed to one delete call
MaxStores  == 2     \* store calls in a row followed by SpecPath

\* ------------------------------------------------------------ the values
Null    == "None"       \* Python None / JSON null
Missing == "missing"    \* a key the document does not carry
Absent  == [absent |-> TRUE]   \* no file at a path

Doc(t, i, d) == [type |-> t, id |-> i, data |-> d]

\* The documents the caller stores.  Two of them share the key "y" and so
\* the path; the third has the same key and a type of its own.
Docs ==
  { Doc(Missing, "y", "a"), Doc(Missing, "y", "b"), Doc("T", "y", "a") }

\* uuid.uuid4() results
Uuids == {"u1"}

\* Registered indices, in registration order (db.idx.__dict__ order).
IndexNames == <<"by_id", "by_data">>
Indexes == {IndexNames[n] : n \in 1..Len(IndexNames)}

Unique(i)    == i \in {"by_id", "by_key"}
IndexNull(i) == i = "by_opt"

\* The Python values a projection returns, by type.
None      == [none |-> TRUE]
Str(s)    == [str |-> s]
List(vs)  == [list |-> vs]
Tuple(vs) == [tuple |-> vs]

IsNone(v)  == "none" \in DOMAIN v
IsStr(v)   == "str" \in DOMAIN v
IsList(v)  == "list" \in DOMAIN v
IsTuple(v) == "tuple" \in DOMAIN v

\* o.get(key) for a key whose value is a string or None.
Get(field) == IF field = Null THEN None ELSE Str(field)

\* Index._f: the projection of index i applied to document o.  by_id reads
\* the id; by_data, by_key (unique) and by_opt (index_null) read the data;
\* by_word returns the document's list of words and by_ngram the same
\* words as a tuple.
F(i, o) ==
  IF i = "by_id" THEN Get(o.id)
  ELSE IF i = "by_word" THEN o.words
  ELSE IF i = "by_ngram"
  THEN IF IsList(o.words) THEN Tuple(o.words.list) ELSE None
  ELSE Get(o.data)

\* json.dumps(v, sort_keys=True) of None, a string, or a list or tuple of
\* such values (a tuple is written as a list).
RECURSIVE JsonDumps(_)
RECURSIVE JsonItems(_)
JsonItems(vs) ==
  IF vs = <<>> THEN ""
  ELSE IF Len(vs) = 1 THEN JsonDumps(vs[1])
  ELSE JsonDumps(vs[1]) \o ", " \o JsonItems(Tail(vs))

JsonDumps(v) ==
  IF IsNone(v) THEN "null"
  ELSE IF IsStr(v) THEN "\"" \o v.str \o "\""
  ELSE IF IsList(v) THEN "[" \o JsonItems(v.list) \o "]"
  ELSE "[" \o JsonItems(v.tuple) \o "]"

\* A variant that takes a tuple for its first element.
NormalizeFirst(v) ==
  IF IsStr(v) THEN v.str
  ELSE IF IsTuple(v) /\ v.tuple # <<>> THEN v.tuple[1].str
  ELSE JsonDumps(v)

\* Index._normalize: strings pass through, anything else is json.dumps'ed.
Normalize(v) == IF IsStr(v) THEN v.str ELSE JsonDumps(v)

\* Python truthiness of a projection result.
Truthy(v) ==
  IF IsNone(v) THEN FALSE
  ELSE IF IsStr(v) THEN v.str # ""
  ELSE IF IsList(v) THEN v.list # <<>>
  ELSE v.tuple # <<>>

\* str(v) of a string or None.
PyStr(v) == IF IsStr(v) THEN v.str ELSE "None"

\* urllib.parse.quote(s) on the strings used here: letters and digits are
\* unreserved and pass through; Null is the None that str() has rendered.
Quote(s) == IF s = Null THEN "None" ELSE s

\* --------------------------------------------------------------- paths
\* Commit.store builds  <cls>/<c1>/../<c4>/<cls>[-<index>]-<sig>.json ; the
\* fan-out directories are the first characters of sig, so a path is
\* determined by (cls, index name, sig).
Path(cls, idx, sig) == [cls |-> cls, idx |-> idx, sig |-> sig, ext |-> ".json"]
GitIgnore == [cls |-> "", idx |-> "", sig |-> ".gitignore", ext |-> ""]

EndsWithJson(fn) == fn.ext = ".json"

UniqueIdxs == SelectSeq(IndexNames, Unique)

\* The loop "for unique_idx in unique_idxs: sig = f(o); if sig: break":
\* the pair (loop variable, sig) it leaves behind, from position n on.
RECURSIVE SigLoop(_, _, _)
SigLoop(unique_idxs, o, n) ==
  IF n > Len(unique_idxs) THEN [idx |-> Null, sig |-> None]
  ELSE LET s == F(unique_idxs[n], o)
       IN IF Truthy(s) \/ n = Len(unique_idxs)
          THEN [idx |-> unique_idxs[n], sig |-> s]
          ELSE SigLoop(unique_idxs, o, n + 1)

\* The type tag of a plain mapping: o.get(type_key, 'obj').
Cls(o) == IF o.type = Missing THEN "obj" ELSE o.type

\* A variant that names every file by a fresh uuid.
PathInByUuid(unique_idxs, o, u) ==
  Path(Quote(Cls(o)), SigLoop(unique_idxs, o, 1).idx, Quote(u))

\* The path Commit.store writes document o to when unique_idxs are the
\* registered unique indices; u is the uuid drawn when none of them yields
\* a signature.
PathIn(unique_idxs, o, u) ==
  LET r   == SigLoop(unique_idxs, o, 1)
      sig == IF Truthy(r.sig) THEN r.sig ELSE Str(u)
  IN Path(Quote(Cls(o)), r.idx, Quote(PyStr(sig)))

\* The same with the indices of IndexNames registered.
PathOf(o, u) == PathIn(UniqueIdxs, o, u)

JsonPaths == {PathOf(o, u) : o \in Docs, u \in Uuids}
AllPaths  == JsonPaths \cup {GitIgnore}

\* git lists paths in byte order; this is that order on AllPaths.
PathRank(p) ==
  IF p = GitIgnore THEN 0
  ELSE IF p.cls = "T" THEN 1
  ELSE IF p.sig = "u1" THEN 2
  ELSE 3

RECURSIVE SortPaths(_)
SortPaths(S) ==
  IF S = {} THEN <<>>
  ELSE LET m == CHOOSE p \in S : \A q \in S : PathRank(p) <= PathRank(q)
       IN <<m>> \o SortPaths(S \ {m})

Range(s) == {s[n] : n \in 1..Len(s)}

IgnoreFile == [text |-> "idx.db"]   \* the content of .gitignore
Contents  == Docs \cup {IgnoreFile}
EmptyTree == [p \in AllPaths |-> Absent]
InitTree  == [EmptyTree EXCEPT ![GitIgnore] = IgnoreFile]
OldDoc    == Doc(Missing, "y", "a")
InitTrees ==
  {InitTree, [InitTree EXCEPT ![PathOf(OldDoc, "u1")] = OldDoc]}

\* ----------------------------------------------------------- git client
\* git status --porcelain, as SHADB.status parses it: the paths whose first
\* column reads exactly 'A' (added to the staging area, not in HEAD, and
\* the working tree file equal to the staged one; 'AM' and 'AD' differ).
StatusA(dk, st, head) ==
  {p \in AllPaths : st[p] # Absent /\ head[p] = Absent /\ dk[p] = st[p]}

\* git diff --name-status a b between two committed trees, in path order.
\* Rename detection only ever pairs a deleted path with an added path of
\* similar content, and Index.update treats such a pair as D old + A new
\* unless the contents are identical, which no two paths of this model are.
DiffStatus(a, b, p) ==
  IF a[p] = Absent THEN "A" ELSE IF b[p] = Absent THEN "D" ELSE "M"

DiffNameStatus(a, b) ==
  LET changed == SortPaths({p \in AllPaths : a[p] # b[p]})
  IN [n \in 1..Len(changed) |->
        [status |-> DiffStatus(a, b, changed[n]), fn |-> changed[n]]]

\* git rm -f fns: every path must be in the staging area.
GitRmOk(st, fns) == \A p \in Range(fns) : st[p] # Absent
GitRm(t, fns) == [p \in AllPaths |-> IF p \in Range(fns) THEN Absent ELSE t[p]]

\* git reset fns: the first argument is taken for a path only when a file
\* of that name is in the working tree; otherwise git stops with
\* "ambiguous argument".
GitResetOk(dk, fns) == dk[fns[1]] # Absent
GitReset(st, head, fns) ==
  [p \in AllPaths |-> IF p \in Range(fns) THEN head[p] ELSE st[p]]

\* git commit fns -m m: the new tree is HEAD with the named paths as they
\* are in the working tree.  Every path must be known to git (staged or in
\* HEAD) and the new tree must differ from HEAD.
\* A variant that commits only the named paths that are in the working tree.
CommitTreeKeepDeleted(dk, head, fns) ==
  [p \in AllPaths |-> IF p \in Range(fns) /\ dk[p] # Absent THEN dk[p] ELSE head[p]]

CommitTree(dk, head, fns) ==
  [p \in AllPaths |-> IF p \in Range(fns) THEN dk[p] ELSE head[p]]
GitCommitOk(dk, st, head, fns) ==
  /\ \A p \in Range(fns) : st[p] # Absent \/ head[p] # Absent
  /\ CommitTree(dk, head, fns) # head

\* ------------------------------------------------------- index tables
\* A table is a bag of rows (key, fn).
Row(k, fn) == [key |-> k, fn |-> fn]

\* delete from tbl where fn = ?
DeleteFn(T, fn) == [r \in {x \in DOMAIN T : x.fn # fn} |-> T[r]]

\* A variant whose table has no primary key: every row is added.
InsertRowNoPrimaryKey(i, T, k, fn) == T (+) SetToBag({Row(k, fn)})

\* replace into tbl (unique: key is the primary key) / insert into tbl
InsertRow(i, T, k, fn) ==
  IF Unique(i)
  THEN [r \in {x \in DOMAIN T : x.key # k} |-> T[r]] (+) SetToBag({Row(k, fn)})
  ELSE T (+) SetToBag({Row(k, fn)})

\* A variant without the null policy.
ValuesWithNull(i, o) ==
  LET value == F(i, o)
  IN IF IsList(value) THEN value.list ELSE <<value>>

\* The values a projection result stands for: none for null (unless the
\* index is index_null), the elements of a list, else the value itself.
Values(i, o) ==
  LET value == F(i, o)
  IN IF ~IsNone(value) \/ IndexNull(i)
     THEN IF IsList(value) THEN value.list ELSE <<value>>
     ELSE <<>>

RECURSIVE InsertValues(_, _, _, _)
InsertValues(i, T, vs, fn) ==
  IF vs = <<>> THEN T
  ELSE InsertValues(i, InsertRow(i, T, Normalize(Head(vs)), fn), Tail(vs), fn)

\* One iteration of the loop over changes in Index.update.
ApplyChange(i, T, ch, dk) ==
  IF ~EndsWithJson(ch.fn) THEN T
  ELSE LET T1 == IF ch.status = "D" \/ (ch.status = "M" /\ ~Unique(i))
                 THEN DeleteFn(T, ch.fn) ELSE T
       IN IF ch.status \in {"A", "C", "M"} /\ dk[ch.fn] # Absent
          THEN InsertValues(i, T1, Values(i, dk[ch.fn]), ch.fn)
          ELSE T1

RECURSIVE ApplyChanges(_, _, _, _)
ApplyChanges(i, T, chs, dk) ==
  IF chs = <<>> THEN T
  ELSE ApplyChanges(i, ApplyChange(i, T, Head(chs), dk), Tail(chs), dk)

\* A variant that reports every hinted path as modified.
AlsoChangesModified(dk, also_fns) ==
  [n \in 1..Len(also_fns) |-> [status |-> "M", fn |-> also_fns[n]]]

\* The hinted paths: ('M' if fn in self._db else 'D', fn).
AlsoChanges(dk, also_fns) ==
  [n \in 1..Len(also_fns) |->
     [status |-> IF dk[also_fns[n]] # Absent THEN "M" ELSE "D",
      fn |-> also_fns[n]]]

\* The tree a recorded hash names: 0 is the empty tree.
TreeAt(cs, h) == IF h = 0 THEN EmptyTree ELSE cs[h]
HeadTree(cs) == cs[Len(cs)]

\* Index.update for index i: the new table.
IndexUpdate(i, T, lh, cs, dk, also_fns) ==
  ApplyChanges(i, T,
               DiffNameStatus(TreeAt(cs, lh), HeadTree(cs)) \o AlsoChanges(dk, also_fns),
               dk)

\* ------------------------------------------------------------- the state
VARIABLES
  disk,            \* working tree: path -> content or Absent
  staged,          \* git staging area: path -> content or Absent
  commits,         \* committed trees, oldest first; HEAD is the last one
  tbl,             \* index name -> bag of rows
  last_hash,       \* index name -> indexed_state.last_hash (a commit number)
  current_commit,  \* SHADB._current_commit: Null, or that Commit's _fns
  scope,           \* the with-block the caller is in: none, explicit, facade
  commit_fns,      \* _fns of the Commit object of an explicit with-block
  created,         \* paths the open (or last) scope's stores created on disk
  pre,             \* disk, tables and HEAD when the scope was entered
  last             \* the call that returned last, and how

vars == <<disk, staged, commits, tbl, last_hash, current_commit, scope,
          commit_fns, created, pre, last>>

\* The repository and the derived database as one value.
Repo == [disk |-> disk, staged |-> staged, commits |-> commits,
         tbl |-> tbl, last_hash |-> last_hash]

HEAD == Len(commits)

Snapshot == [disk |-> disk, tbl |-> tbl, head |-> HEAD]

\* created and pre describe the open with-block and stay readable in the
\* state its exit leaves; the next call outside a with-block forgets them.
NoSnapshot == [disk |-> EmptyTree, tbl |-> [i \in Indexes |-> EmptyBag], head |-> 0]
KeepScopeHistory ==
  IF scope = "none" THEN created' = {} /\ pre' = NoSnapshot
  ELSE UNCHANGED <<created, pre>>

\* What the model remembers of the call that returned last: the call, the
\* exception it left the caller with, the exception the with-block's body
\* raised, its paths (returned, deleted or pending) and documents, the
\* with-block it was made in, and whether an index lagged behind HEAD
\* when it was made.
Ret(op, exc, body, fns, objs) ==
  [op |-> op, exc |-> exc, body |-> body, fns |-> fns, objs |-> objs,
   form |-> scope, lag |-> \E i \in DOMAIN last_hash : last_hash[i] # HEAD]

\* SHADB.__init__ followed by add_index for every index.  The directory is
\* either empty (git init, .gitignore committed) or a repository an earlier
\* session left with one committed document.  add_index runs Index.update
\* on the empty table with no recorded hash, i.e. from the empty tree.
Init ==
  /\ disk \in InitTrees
  /\ staged = disk
  /\ commits = <<disk>>
  /\ tbl = [i \in Indexes |-> IndexUpdate(i, EmptyBag, 0, commits, disk, <<>>)]
  /\ last_hash = [i \in Indexes |-> 1]
  /\ current_commit = Null
  /\ scope = "none"
  /\ commit_fns = <<>>
  /\ created = {}
  /\ pre = NoSnapshot
  /\ last = [op |-> "init", exc |-> "none", body |-> "none", fns |-> <<>>,
             objs |-> <<>>, form |-> "none", lag |-> FALSE]

\* ------------------------------------------------------------ operations
\* A variant that does not record HEAD in indexed_state.
UpdateAllUnrecorded(R, also_fns) ==
  [R EXCEPT
     !.tbl = [i \in DOMAIN R.tbl |->
                IndexUpdate(i, R.tbl[i], R.last_hash[i], R.commits, R.disk, also_fns)]]

\* Indices.update(also_fns): Index.update for every registered index; each
\* ends by recording HEAD as its last_hash.
UpdateAll(R, also_fns) ==
  [R EXCEPT
     !.tbl = [i \in DOMAIN R.tbl |->
                IndexUpdate(i, R.tbl[i], R.last_hash[i], R.commits, R.disk, also_fns)],
     !.last_hash = [i \in DOMAIN R.tbl |-> Len(R.commits)]]

\* A variant that opens the file for exclusive creation: a file that is
\* there is left as it is.
DumpIfNew(R, o, fn) ==
  IF R.disk[fn] = Absent
  THEN [R EXCEPT !.disk[fn] = o, !.staged[fn] = o]
  ELSE R

\* SHADB.dump(o, fn, _update_idx=False): write the file, git add it if it
\* was not there.
Dump(R, o, fn) ==
  [R EXCEPT !.disk[fn] = o,
            !.staged[fn] = IF R.disk[fn] = Absent THEN o ELSE @]

\* The paths Commit.store collects in fns; us are the uuids drawn.
StorePathsIn(unique_idxs, objs, us) ==
  [n \in 1..Len(objs) |-> PathIn(unique_idxs, objs[n], us[n])]

StorePaths(objs, us) == StorePathsIn(UniqueIdxs, objs, us)

\* The loop over objects in Commit.store, writing objs[n] to fns[n].
RECURSIVE DumpFiles(_, _, _)
DumpFiles(R, objs, fns) ==
  IF objs = <<>> THEN R
  ELSE DumpFiles(Dump(R, Head(objs), Head(fns)), Tail(objs), Tail(fns))

DumpAll(R, objs, us) == DumpFiles(R, objs, StorePaths(objs, us))

\* Commit.store(*objects) without the append to _fns, with unique_idxs the
\* registered unique indices: the new repository.
CommitStoreIn(unique_idxs, R, objs, us) ==
  UpdateAll(DumpFiles(R, objs, StorePathsIn(unique_idxs, objs, us)),
            StorePathsIn(unique_idxs, objs, us))

\* A variant that writes the files and leaves the indices alone.
CommitStoreNoFlush(R, objs, us) == DumpAll(R, objs, us)

\* The same with the indices of IndexNames registered.
CommitStore(R, objs, us) == CommitStoreIn(UniqueIdxs, R, objs, us)

\* Commit._commit
CommitCommit(R, fns) ==
  IF fns = <<>> THEN [R |-> R, exc |-> "none"]
  ELSE IF ~GitCommitOk(R.disk, R.staged, HeadTree(R.commits), fns)
  THEN [R |-> R, exc |-> "git"]
  ELSE [R |-> [R EXCEPT
                 !.commits = Append(@, CommitTree(R.disk, HeadTree(R.commits), fns)),
                 !.staged = [p \in AllPaths |->
                               IF p \in Range(fns) THEN R.disk[p] ELSE R.staged[p]]],
        exc |-> "none"]

\* Commit._abort
CommitAbort(R, fns) ==
  IF fns = <<>> THEN [R |-> R, exc |-> "none"]
  ELSE LET to_delete == StatusA(R.disk, R.staged, HeadTree(R.commits))
       IN IF ~GitResetOk(R.disk, fns) THEN [R |-> R, exc |-> "git"]
          ELSE [R |-> UpdateAll(
                        [R EXCEPT
                           !.staged = GitReset(R.staged, HeadTree(R.commits), fns),
                           !.disk = [p \in AllPaths |->
                                       IF p \in to_delete THEN Absent ELSE R.disk[p]]],
                        fns),
                exc |-> "none"]

\* Commit.__exit__(exc_type, ...): body_exc is "none" when the body ended
\* normally.  The exception the with statement leaves the caller with is
\* the one __exit__ raised, else the body's (__exit__ returns None).
CommitExit(R, fns, body_exc) ==
  LET r == IF body_exc # "none" THEN CommitAbort(R, fns) ELSE CommitCommit(R, fns)
  IN [R |-> r.R, raised |-> r.exc,
      exc |-> IF r.exc # "none" THEN r.exc ELSE body_exc]

SetRepo(R) ==
  /\ disk' = R.disk
  /\ staged' = R.staged
  /\ commits' = R.commits
  /\ tbl' = R.tbl
  /\ last_hash' = R.last_hash

\* The pending list of the Commit object the open with-block belongs to.
ScopeFns == IF scope = "explicit" THEN commit_fns ELSE current_commit

\* Leaving the with-block: the repository after Commit.__exit__, and
\* SHADB.__exit__ clearing _current_commit unless Commit.__exit__ raised.
Leave(R, body_exc, op, fns) ==
  LET x == CommitExit(R, ScopeFns, body_exc)
  IN /\ SetRepo(x.R)
     /\ scope' = "none"
     /\ commit_fns' = <<>>
     /\ current_commit' = IF scope = "facade" /\ x.raised = "none"
                          THEN Null ELSE current_commit
     /\ last' = Ret(op, x.exc, body_exc, fns, <<>>)
     /\ UNCHANGED <<created, pre>>

\* with db.commit() as commit:   /   with db:
\* snap is what the model remembers of the state the block was entered in.
Enter(form, snap) ==
  /\ scope = "none"
  /\ scope' = form
  /\ commit_fns' = <<>>
  /\ current_commit' = IF form = "facade" THEN <<>> ELSE current_commit
  /\ created' = {}
  /\ pre' = snap
  /\ last' = Ret("enter", "none", "none", <<>>, <<>>)
  /\ UNCHANGED <<disk, staged, commits, tbl, last_hash>>

HeadOnly == [NoSnapshot EXCEPT !.head = HEAD]

EnterCommit == Enter("explicit", HeadOnly)
EnterFacade == Enter("facade", HeadOnly)
EnterCommitRecorded == Enter("explicit", Snapshot)

Objects == UNION {[1..n -> Docs] : n \in 1..MaxObjects}

NewPaths(objs, us) == {p \in Range(StorePaths(objs, us)) : disk[p] = Absent}

\* commit.store(*objects) on the Commit object of an explicit with-block
StoreInCommit ==
  /\ scope = "explicit"
  /\ \E objs \in Objects : \E us \in [1..Len(objs) -> Uuids] :
       /\ Len(commit_fns) + Len(objs) <= MaxFns
       /\ SetRepo(CommitStore(Repo, objs, us))
       /\ commit_fns' = commit_fns \o StorePaths(objs, us)
       /\ created' = created \cup NewPaths(objs, us)
       /\ last' = Ret("store", "none", "none", StorePaths(objs, us), objs)
  /\ UNCHANGED <<current_commit, scope, pre>>

\* db.store(*objects) with _current_commit set: delegated to that Commit
StoreInCurrent ==
  /\ current_commit # Null
  /\ \E objs \in Objects : \E us \in [1..Len(objs) -> Uuids] :
       /\ Len(current_commit) + Len(objs) <= MaxFns
       /\ SetRepo(CommitStore(Repo, objs, us))
       /\ current_commit' = current_commit \o StorePaths(objs, us)
       /\ created' = IF scope = "facade" THEN created \cup NewPaths(objs, us)
                     ELSE IF scope = "none" THEN {} ELSE created
       /\ last' = Ret("store", "none", "none", StorePaths(objs, us), objs)
  /\ pre' = IF scope = "none" THEN NoSnapshot ELSE pre
  /\ UNCHANGED <<scope, commit_fns>>

\* A variant that runs the fresh Commit object as a with-block around the
\* call, committing on the way out.
StoreOutsideCommitting ==
  /\ current_commit = Null
  /\ \E objs \in Objects : \E us \in [1..Len(objs) -> Uuids] :
       LET x == CommitCommit(CommitStore(Repo, objs, us), StorePaths(objs, us))
       IN /\ Len(x.R.commits) <= MaxCommits
          /\ SetRepo(x.R)
          /\ last' = Ret("db_store", x.exc, "none", StorePaths(objs, us), objs)
  /\ KeepScopeHistory
  /\ UNCHANGED <<current_commit, scope, commit_fns>>

\* db.store(*objects) with no _current_commit: self.commit().store(...) on
\* a fresh Commit object that is dropped when store returns.
StoreOutside ==
  /\ current_commit = Null
  /\ \E objs \in Objects : \E us \in [1..Len(objs) -> Uuids] :
       /\ SetRepo(CommitStore(Repo, objs, us))
       /\ last' = Ret("db_store", "none", "none", StorePaths(objs, us), objs)
  /\ KeepScopeHistory
  /\ UNCHANGED <<current_commit, scope, commit_fns>>

DeleteArgs == {SortPaths(S) : S \in {X \in SUBSET JsonPaths : X # {} /\ Cardinality(X) <= MaxDelete}}

\* db.delete(*fns): git rm, then the index update with the paths as hints.
\* (When git rm fails nothing changes and the call raises: see BodyRaises.)
Delete ==
  /\ \E fns \in DeleteArgs :
       /\ GitRmOk(staged, fns)
       /\ SetRepo(UpdateAll([Repo EXCEPT !.disk = GitRm(disk, fns),
                                         !.staged = GitRm(staged, fns)], fns))
       /\ last' = Ret("delete", "none", "none", fns, <<>>)
  /\ KeepScopeHistory
  /\ UNCHANGED <<current_commit, scope, commit_fns>>

\* db.delete(*fns) called in the body of a with-block
DeleteInScope == scope # "none" /\ Delete

\* db.delete(*fns, commit=True): git rm, then self.commit(*fns).  The name
\* commit is bound to the second definition, commit(self, m=None): with one
\* path it builds a Commit object and returns, with more it is a TypeError.
\* An exception inside a with-block leaves the block through __exit__.
DeleteCommit ==
  \E fns \in DeleteArgs :
    /\ GitRmOk(staged, fns)
    /\ LET R == [Repo EXCEPT !.disk = GitRm(disk, fns), !.staged = GitRm(staged, fns)]
       IN IF Len(fns) = 1
          THEN /\ SetRepo(R)
               /\ last' = Ret("delete_commit", "none", "none", fns, <<>>)
               /\ KeepScopeHistory
               /\ UNCHANGED <<current_commit, scope, commit_fns>>
          ELSE IF scope = "none"
          THEN /\ SetRepo(R)
               /\ last' = Ret("delete_commit", "type", "none", fns, <<>>)
               /\ KeepScopeHistory
               /\ UNCHANGED <<current_commit, scope, commit_fns>>
          ELSE Leave(R, "type", "exit_fail", fns)

\* The body of the with-block ends normally.
ExitOk ==
  /\ scope # "none"
  /\ Len(CommitExit(Repo, ScopeFns, "none").R.commits) <= MaxCommits
  /\ Leave(Repo, "none", "exit", ScopeFns)

\* The body of the with-block raises (the caller's own exception, or a call
\* that failed without changing anything).
BodyRaises ==
  /\ scope # "none"
  /\ Leave(Repo, "body", "exit_fail", ScopeFns)

Next ==
  \/ EnterCommit
  \/ EnterFacade
  \/ StoreInCommit
  \/ StoreInCurrent
  \/ StoreOutside
  \/ Delete
  \/ DeleteCommit
  \/ ExitOk
  \/ BodyRaises

Spec == Init /\ [][Next]_vars

\* The calls made through one explicit with-block at a time, with the
\* whole entry state remembered.
NextScope ==
  \/ EnterCommitRecorded
  \/ StoreInCommit
  \/ DeleteInScope
  \/ ExitOk
  \/ BodyRaises

SpecScope == Init /\ [][NextScope]_vars

\* db.store(*objects) before a with-block is entered
StoreBefore == scope = "none" /\ StoreOutside

\* Stores outside a with-block followed by one explicit with-block at a
\* time, with the whole entry state remembered.
NextAbort ==
  \/ StoreBefore
  \/ EnterCommitRecorded
  \/ StoreInCommit
  \/ ExitOk
  \/ BodyRaises

SpecAbort == Init /\ [][NextAbort]_vars

\* db.idx.update(also_fns=fns), called by the program itself; last tells
\* whether the call before it was the same update.
IdxUpdate ==
  /\ \E fns \in DeleteArgs \cup {<<>>} :
       /\ SetRepo(UpdateAll(Repo, fns))
       /\ last' = Ret(IF last.op \in {"update", "update_again"} /\ last.fns = fns
                      THEN "update_again" ELSE "update",
                      "none", "none", fns, <<>>)
  /\ KeepScopeHistory
  /\ UNCHANGED <<current_commit, scope, commit_fns>>

\* Stores, with-blocks and index updates.
NextUpdate ==
  \/ StoreBefore
  \/ EnterCommitRecorded
  \/ StoreInCommit
  \/ ExitOk
  \/ BodyRaises
  \/ IdxUpdate

SpecUpdate == Init /\ [][NextUpdate]_vars

\* ------------------------------------------- an update that fails partway
\* The index by_strict has the projection  lambda o: o['data'] + '' , which
\* raises TypeError on a document whose data is None.
TxnIndexNames == <<"by_id", "by_strict">>
TxnDocs == Docs \cup {Doc(Missing, "y", Null)}
TxnObjects == UNION {[1..n -> TxnDocs] : n \in 1..MaxObjects}

Raises(i, o) == i = "by_strict" /\ o.data = Null

\* The first change of the loop in Index.update at which self._f(o)
\* raises, or 0.
FirstFailure(i, chs, dk) ==
  LET failing == {n \in 1..Len(chs) :
                    /\ EndsWithJson(chs[n].fn)
                    /\ chs[n].status \in {"A", "C", "M"}
                    /\ dk[chs[n].fn] # Absent
                    /\ Raises(i, dk[chs[n].fn])}
  IN IF failing = {} THEN 0 ELSE CHOOSE n \in failing : \A m \in failing : n <= m

\* A variant whose statements are committed one by one.
NoRollback(T, progress) == progress

\* 'with self._connect() as conn' left by an exception: the transaction
\* is rolled back and the table is what it was at BEGIN.
Rollback(T, progress) == T

\* Index.update as one transaction.  progress is the table inside the
\* transaction when it ends: at the failing change the rows of its file
\* have been deleted (where the loop deletes them) and none inserted, which
\* is what ApplyChange does with a document that has no key.
IndexUpdateTxn(i, T, lh, cs, dk, also_fns) ==
  LET Outcome(n, progress) ==
        IF n = 0
        THEN [tbl |-> progress, last_hash |-> Len(cs), exc |-> "none",
              progress |-> progress]
        ELSE [tbl |-> Rollback(T, progress), last_hash |-> lh, exc |-> "TypeError",
              progress |-> progress]
      UpTo(chs, n) ==
        Outcome(n, ApplyChanges(i, T, SubSeq(chs, 1, IF n = 0 THEN Len(chs) ELSE n), dk))
      Run(chs) == UpTo(chs, FirstFailure(i, chs, dk))
  IN Run(DiffNameStatus(TreeAt(cs, lh), HeadTree(cs)) \o AlsoChanges(dk, also_fns))

\* Indices.update(also_fns): the indices in registration order, up to the
\* first one whose update raises.
RECURSIVE UpdateEach(_, _, _)
UpdateEach(R, idxs, also_fns) ==
  LET Recorded(i, x) == [R EXCEPT !.tbl[i] = x.tbl, !.last_hash[i] = x.last_hash]
      Step(i, x) ==
        IF x.exc # "none"
        THEN [R |-> Recorded(i, x), failed |-> i, progress |-> x.progress]
        ELSE UpdateEach(Recorded(i, x), Tail(idxs), also_fns)
      First(i) ==
        Step(i, IndexUpdateTxn(i, R.tbl[i], R.last_hash[i], R.commits, R.disk, also_fns))
  IN IF idxs = <<>> THEN [R |-> R, failed |-> Null, progress |-> EmptyBag]
     ELSE First(Head(idxs))

\* Commit.store(*objects) with these indices: the files, then the update.
StoreTxn(R, objs, us) ==
  UpdateEach(DumpFiles(R, objs, StorePaths(objs, us)), TxnIndexNames, StorePaths(objs, us))

InitTxn ==
  /\ disk = InitTree
  /\ staged = disk
  /\ commits = <<disk>>
  /\ tbl = [i \in Range(TxnIndexNames) |-> EmptyBag]
  /\ last_hash = [i \in Range(TxnIndexNames) |-> 1]
  /\ last = [op |-> "init", failed |-> Null, before |-> tbl, progress |-> EmptyBag]
  /\ current_commit = Null
  /\ scope = "none"
  /\ commit_fns = <<>>
  /\ created = {}
  /\ pre = NoSnapshot

\* db.store(*objects) outside a with-block; last remembers the tables
\* before the call, the index whose update raised and how far it had come.
StoreUncommitted ==
  /\ \E objs \in TxnObjects : \E us \in [1..Len(objs) -> Uuids] :
       LET x == StoreTxn(Repo, objs, us)
       IN /\ SetRepo(x.R)
          /\ last' = [op |-> "db_store", failed |-> x.failed, before |-> tbl,
                      progress |-> x.progress]
  /\ UNCHANGED <<current_commit, scope, commit_fns, created, pre>>

\* with db.commit() as c: c.store(*objects)  where the store returns and
\* the exit commits.  (A store that raises inside a with-block goes
\* through the abort and is not followed here.)
StoreCommitted ==
  /\ Len(commits) < MaxCommits
  /\ \E objs \in TxnObjects : \E us \in [1..Len(objs) -> Uuids] :
       LET x == StoreTxn(Repo, objs, us)
           c == CommitCommit(x.R, StorePaths(objs, us))
       IN /\ x.failed = Null
          /\ c.exc = "none"
          /\ SetRepo(c.R)
          /\ last' = [op |-> "exit", failed |-> Null, before |-> tbl,
                      progress |-> EmptyBag]
  /\ UNCHANGED <<current_commit, scope, commit_fns, created, pre>>

NextTxn ==
  \/ StoreUncommitted
  \/ StoreCommitted

SpecTxn == InitTxn /\ [][NextTxn]_vars

\* ------------------------------------------------- the path of a store
\* Documents with and without a type tag whose id and data may be empty or
\* None, stored one after the other under every choice and order of the
\* registered unique indices by_id and by_key.
PathDocs ==
  {Doc(t, i, d) : t \in {Missing, "T"}, i \in {"y", "", Null}, d \in {"a", "b", Null}}

UniqueLists ==
  {<<>>, <<"by_id">>, <<"by_key">>, <<"by_id", "by_key">>, <<"by_key", "by_id">>}

PathUuids == {"u1", "u2"}

PathSpace ==
  AllPaths \cup {PathIn(l, o, u) : l \in UniqueLists, o \in PathDocs, u \in PathUuids}

\* A fresh repository on which add_index has registered the unique indices
\* of one of the lists, in that order, and the index by_data.
InitPath ==
  /\ disk = [p \in PathSpace |-> IF p = GitIgnore THEN IgnoreFile ELSE Absent]
  /\ staged = disk
  /\ commits = <<InitTree>>
  /\ \E l \in UniqueLists :
       /\ tbl = [i \in Range(l) \cup {"by_data"} |-> EmptyBag]
       /\ last_hash = [i \in Range(l) \cup {"by_data"} |-> 1]
       /\ last = [op |-> "add_index", unique_idxs |-> l, fns |-> <<>>, objs |-> <<>>]
  /\ current_commit = Null
  /\ scope = "none"
  /\ commit_fns = <<>>
  /\ created = {}
  /\ pre = NoSnapshot

\* db.store(o) outside any with-block; last collects the documents stored
\* so far and the paths the calls returned.
StoreOne ==
  /\ Len(last.fns) < MaxStores
  /\ \E o \in PathDocs : \E u \in PathUuids :
       /\ SetRepo(CommitStoreIn(last.unique_idxs, Repo, <<o>>, <<u>>))
       /\ last' = [last EXCEPT
                     !.op = "db_store",
                     !.fns = Append(@, PathIn(last.unique_idxs, o, u)),
                     !.objs = Append(@, o)]
  /\ UNCHANGED <<current_commit, scope, commit_fns, created, pre>>

SpecPath == InitPath /\ [][StoreOne]_vars

\* ------------------------------------------------------------ add_index
\* The calls add_index(name, attr_or_f, unique=, index_null=, fts=, auto=):
\* i names the projection together with its unique and index_null options
\* (by_id: the id, unique; by_data: the data), form tells whether the
\* projection is given as an attribute name or as a function.
AddNames == {"a", "_a", "a-b", "update"}
AddArgs ==
  [name : AddNames, i : {"by_id", "by_data"}, form : {"attr", "f"},
   fts : BOOLEAN, auto : BOOLEAN]

StartsWithUnderscore(name) == name = "_a"
IsIdentifier(name) == name \in {"a", "_a", "update"}

\* A variant that takes no name for registered.
NeverConflicting(idx, name) == FALSE

\* hasattr(self.idx, name): a registered index, or the method update of
\* the class Indices.
Conflicting(idx, name) == name = "update" \/ \E x \in idx : x.name = name

\* The exception add_index raises before it creates anything, or "none".
AddIndexError(idx, a) ==
  IF Conflicting(idx, a.name) THEN "Exception"
  ELSE IF StartsWithUnderscore(a.name) THEN "ValueError"
  ELSE IF ~IsIdentifier(a.name) THEN "ValueError"
  ELSE IF Unique(a.i) /\ a.fts THEN "ValueError"
  ELSE IF a.form = "f" /\ a.auto THEN "ValueError"
  ELSE "none"

\* 'idx_%s__V%s' % (name, version): the version is the md5 of the
\* attribute name, or of the source text of the function, which is the
\* text of the whole call.
TblName(a) ==
  [name |-> a.name,
   version |-> IF a.form = "attr" THEN <<"attr", a.i>> ELSE <<"f", a.i, a.fts>>]

\* The working trees a session leaves behind over the committed tree base:
\* clean, with a document stored outside a with-block, or with a committed
\* document deleted and the deletion not committed.
WorkTrees(base) ==
  {[disk |-> base, staged |-> base]}
    \cup {[disk |-> [base EXCEPT ![PathOf(o, u)] = o],
           staged |-> IF base[PathOf(o, u)] = Absent
                      THEN [base EXCEPT ![PathOf(o, u)] = o] ELSE base] :
             o \in Docs, u \in Uuids}
    \cup {[disk |-> GitRm(base, <<p>>), staged |-> GitRm(base, <<p>>)] :
             p \in {q \in JsonPaths : base[q] # Absent}}

\* A new SHADB object on a repository an earlier session left, with an
\* index database that holds none of the tables of the indices below.
InitAdd ==
  /\ \E base \in InitTrees : \E w \in WorkTrees(base) :
       /\ disk = w.disk
       /\ staged = w.staged
       /\ commits = <<base>>
  /\ tbl = <<>>
  /\ last_hash = <<>>
  /\ last = [op |-> "init", args |-> Null, exc |-> "none", idx |-> {}]
  /\ current_commit = Null
  /\ scope = "none"
  /\ commit_fns = <<>>
  /\ created = {}
  /\ pre = NoSnapshot

\* db.add_index(name, attr_or_f, **kwargs): the rejections, Index._init_db,
\* Index.update from the hash recorded for the table (the empty tree when
\* there is none), then the registration under idx and doc or docs.
AddIndex ==
  /\ \E a \in AddArgs :
       LET e   == AddIndexError(last.idx, a)
           t   == TblName(a)
           T0  == IF t \in DOMAIN tbl THEN tbl[t] ELSE EmptyBag
           lh0 == IF t \in DOMAIN last_hash THEN last_hash[t] ELSE 0
       IN IF e # "none"
          THEN /\ last' = [op |-> "add_index", args |-> a, exc |-> e, idx |-> last.idx]
               /\ UNCHANGED <<tbl, last_hash>>
          ELSE /\ tbl' = [x \in DOMAIN tbl \cup {t} |->
                            IF x = t
                            THEN IndexUpdate(a.i, T0, lh0, commits, disk, <<>>)
                            ELSE tbl[x]]
               /\ last_hash' = [x \in DOMAIN last_hash \cup {t} |->
                                  IF x = t THEN HEAD ELSE last_hash[x]]
               /\ last' = [op |-> "add_index", args |-> a, exc |-> "none",
                           idx |-> last.idx \cup {a}]
  /\ UNCHANGED <<disk, staged, commits, current_commit, scope, commit_fns,
                 created, pre>>

\* The program ends and a new SHADB object is built on the directory: idx,
\* doc and docs are empty again, the index database is kept.
Reopen ==
  /\ last.idx # {}
  /\ last' = [op |-> "reopen", args |-> Null, exc |-> "none", idx |-> {}]
  /\ UNCHANGED <<disk, staged, commits, tbl, last_hash, current_commit, scope,
                 commit_fns, created, pre>>

NextAdd ==
  \/ AddIndex
  \/ Reopen

SpecAdd == InitAdd /\ [][NextAdd]_vars

\* ---------------------------------------------------------- typed records
\* A dataclass or namedtuple instance, and a dict.
Typed(kind, cls, fields) == [kind |-> kind, cls |-> cls, fields |-> fields]
Dict(d) == [dict |-> d]
IsTyped(v) == "kind" \in DOMAIN v
IsDict(v)  == "dict" \in DOMAIN v

\* The classes passed to SHADB(classes=[User, Addr]), as dataclasses or as
\* namedtuples: User(id, info) and Addr(street).
Kinds == {"dataclass", "namedtuple"}
Addrs == {Typed(k, "Addr", [f \in {"street"} |-> Str("s")]) : k \in Kinds}
Users ==
  {Typed(k, "User", [f \in {"id", "info"} |-> IF f = "id" THEN i ELSE v]) :
     k \in Kinds, i \in {None, Str(""), Str("y")},
     v \in {None, Str("a"), Str("b")} \cup Addrs}

\* The positional order of a class's fields.
FieldOrder(cls) == IF cls = "Addr" THEN <<"street">> ELSE <<"id", "info">>

\* dataclasses.asdict recurses: a dataclass becomes a dict, a namedtuple
\* is rebuilt as the same namedtuple over the converted fields.
RECURSIVE AsDictInner(_)
AsDictInner(v) ==
  IF ~IsTyped(v) THEN v
  ELSE LET fields == [f \in DOMAIN v.fields |-> AsDictInner(v.fields[f])]
       IN IF v.kind = "dataclass" THEN Dict(fields) ELSE Typed(v.kind, v.cls, fields)

\* Commit.store, "handle known object types": asdict(o) of a dataclass,
\* o._asdict() of a namedtuple (its fields as they are), and the class
\* name under '__dataclass__' or '__namedtuple__'.
ToDict(o) ==
  Dict([f \in DOMAIN o.fields \cup {"__" \o o.kind \o "__"} |->
          IF f \in DOMAIN o.fields
          THEN IF o.kind = "dataclass" THEN AsDictInner(o.fields[f]) ELSE o.fields[f]
          ELSE Str(o.cls)])

\* Index._autogen for an auto index over the attribute id; g is the value
\* the generator returns.
Generated == Str("g")
Autogen(o, auto) ==
  IF auto /\ ~Truthy(o.dict["id"]) THEN Dict([o.dict EXCEPT !["id"] = Generated]) ELSE o

\* json.dump raises TypeError on a dataclass instance.
RECURSIVE Serializable(_)
Serializable(v) ==
  IF IsTyped(v)
  THEN v.kind = "namedtuple" /\ \A f \in DOMAIN v.fields : Serializable(v.fields[f])
  ELSE IF IsDict(v) THEN \A f \in DOMAIN v.dict : Serializable(v.dict[f])
  ELSE TRUE

\* What json.load reads back of what json.dump wrote: a namedtuple was
\* written as an array and is read as a list.
RECURSIVE JsonValue(_)
JsonValue(v) ==
  IF IsTyped(v)
  THEN List([n \in 1..Len(FieldOrder(v.cls)) |-> JsonValue(v.fields[FieldOrder(v.cls)[n]])])
  ELSE IF IsDict(v) THEN Dict([f \in DOMAIN v.dict |-> JsonValue(v.dict[f])])
  ELSE v

\* SHADB.load after json.load: the constructor named by the tag is called
\* with the remaining keys.
Load(o) ==
  LET tags == {"__dataclass__", "__namedtuple__"} \cap DOMAIN o.dict
      tag  == CHOOSE t \in tags : \A u \in tags : t = "__dataclass__" \/ u # "__dataclass__"
  IN IF tags = {} THEN o
     ELSE Typed(IF tag = "__dataclass__" THEN "dataclass" ELSE "namedtuple",
                o.dict[tag].str,
                [f \in DOMAIN o.dict \ {tag} |-> o.dict[f]])

\* A repository with the unique index by_id over the attribute id, with or
\* without auto, and a typed record r the caller is about to store.
InitCodec ==
  /\ disk = InitTree
  /\ staged = disk
  /\ commits = <<disk>>
  /\ tbl = [i \in {"by_id"} |-> EmptyBag]
  /\ last_hash = [i \in {"by_id"} |-> 1]
  /\ \E r \in Users : \E auto \in BOOLEAN :
       last = [op |-> "init", r |-> r, auto |-> auto, exc |-> "none",
               file |-> None, loaded |-> None]
  /\ current_commit = Null
  /\ scope = "none"
  /\ commit_fns = <<>>
  /\ created = {}
  /\ pre = NoSnapshot

\* fn = db.store(r): the conversion, the auto indices, and json.dump; file
\* is the JSON value written.
StoreRecord ==
  /\ last.op = "init"
  /\ LET o == Autogen(ToDict(last.r), last.auto)
     IN last' = IF Serializable(o)
                THEN [last EXCEPT !.op = "store", !.file = JsonValue(o)]
                ELSE [last EXCEPT !.op = "store", !.exc = "TypeError"]
  /\ UNCHANGED <<disk, staged, commits, tbl, last_hash, current_commit, scope,
                 commit_fns, created, pre>>

\* db.load(fn)
LoadRecord ==
  /\ last.op = "store"
  /\ last.exc = "none"
  /\ last' = [last EXCEPT !.op = "load", !.loaded = Load(last.file)]
  /\ UNCHANGED <<disk, staged, commits, tbl, last_hash, current_commit, scope,
                 commit_fns, created, pre>>

NextCodec ==
  \/ StoreRecord
  \/ LoadRecord

SpecCodec == InitCodec /\ [][NextCodec]_vars

\* ------------------------------------------------- keys and lookups
\* Documents whose id and data may be None and that carry a list of words
\* (or None), stored in a repository with five indices: by_id (unique),
\* by_data, by_opt (index_null), by_word (a list) and by_ngram (a tuple).
KeyDoc(i, d, w) == [type |-> Missing, id |-> i, data |-> d, words |-> w]

WordLists ==
  {None, List(<<Str("a")>>), List(<<Str("a"), Str("b")>>), List(<<Str("a"), Str("a")>>)}

KeyDocs == {KeyDoc(i, d, w) : i \in {"y", Null}, d \in {"a", Null}, w \in WordLists}

KeyIndexNames == <<"by_id", "by_data", "by_opt", "by_word", "by_ngram">>
KeyIndexes == Range(KeyIndexNames)
KeyUniqueIdxs == SelectSeq(KeyIndexNames, Unique)

KeyPaths ==
  AllPaths \cup {PathIn(KeyUniqueIdxs, o, u) : o \in KeyDocs, u \in PathUuids}

\* The keys the caller looks up.
LookupKeys ==
  {None, Str("y"), Str("a"), Str("b"), Str("null"), Str("%"),
   Tuple(<<>>), Tuple(<<Str("a")>>), Tuple(<<Str("a"), Str("b")>>)}

\* '%' in normalized_key, and SQLite's LIKE, on the keys used here: the
\* pattern "%" matches every key, and "z%" (used with items) matches none.
HasPercent(k) == k = "%"
Like(pattern, k) == pattern = "%"

\* The rows 'select fn from tbl where key <cmp_o> ?' returns.
SelectRows(T, k) ==
  {r \in BagToSet(T) : IF HasPercent(k) THEN Like(k, r.key) ELSE r.key = k}

\* The list of paths of the selected rows, as a bag.
RECURSIVE FnBag(_, _)
FnBag(T, rows) ==
  IF rows = {} THEN EmptyBag
  ELSE LET r == CHOOSE x \in rows : TRUE
       IN FnBag(T, rows \ {r}) (+) [q \in {r.fn} |-> T[r]]

\* Index.__getitem__(key): the outcomes (the result, or the exception).  A
\* key of None selects on a column the table does not have; 'limit 1'
\* returns any one of the selected rows.
GetItem(T, i, key) ==
  IF IsNone(key) THEN {[exc |-> "OperationalError", result |-> None]}
  ELSE LET rows == SelectRows(T, Normalize(key))
       IN IF Unique(i)
          THEN IF rows = {} THEN {[exc |-> "KeyError", result |-> None]}
               ELSE {[exc |-> "none", result |-> [path |-> r.fn]] : r \in rows}
          ELSE {[exc |-> "none", result |-> [paths |-> FnBag(T, rows)]]}

\* Index.get(key, default): KeyError becomes the default.
Default == [default |-> TRUE]
IndexGet(T, i, key) ==
  {IF x.exc = "KeyError" THEN [exc |-> "none", result |-> Default] ELSE x :
     x \in GetItem(T, i, key)}

NoLookup == [idx |-> Null, key |-> None, result |-> None, exc |-> "none"]

InitKeys ==
  /\ disk = [p \in KeyPaths |-> IF p = GitIgnore THEN IgnoreFile ELSE Absent]
  /\ staged = disk
  /\ commits = <<InitTree>>
  /\ tbl = [i \in KeyIndexes |-> EmptyBag]
  /\ last_hash = [i \in KeyIndexes |-> 1]
  /\ last = [op |-> "add_index", unique_idxs |-> KeyUniqueIdxs, fns |-> <<>>,
             objs |-> <<>>, lookup |-> NoLookup]
  /\ current_commit = Null
  /\ scope = "none"
  /\ commit_fns = <<>>
  /\ created = {}
  /\ pre = NoSnapshot

\* db.store(o) outside any with-block
StoreKeyDoc ==
  /\ Len(last.fns) < MaxStores
  /\ \E o \in KeyDocs : \E u \in PathUuids :
       /\ SetRepo(CommitStoreIn(KeyUniqueIdxs, Repo, <<o>>, <<u>>))
       /\ last' = [last EXCEPT
                     !.op = "db_store",
                     !.fns = Append(@, PathIn(KeyUniqueIdxs, o, u)),
                     !.objs = Append(@, o),
                     !.lookup = NoLookup]
  /\ UNCHANGED <<current_commit, scope, commit_fns, created, pre>>

\* db.idx.<i>[key]
GetItemCall ==
  /\ \E i \in KeyIndexes : \E key \in LookupKeys : \E x \in GetItem(tbl[i], i, key) :
       last' = [last EXCEPT
                  !.op = "getitem",
                  !.lookup = [idx |-> i, key |-> key, result |-> x.result, exc |-> x.exc]]
  /\ UNCHANGED <<disk, staged, commits, tbl, last_hash, current_commit, scope,
                 commit_fns, created, pre>>

\* db.idx.<i>.get(key, default)
GetCall ==
  /\ \E i \in KeyIndexes : \E key \in LookupKeys : \E x \in IndexGet(tbl[i], i, key) :
       last' = [last EXCEPT
                  !.op = "get",
                  !.lookup = [idx |-> i, key |-> key, result |-> x.result, exc |-> x.exc]]
  /\ UNCHANGED <<disk, staged, commits, tbl, last_hash, current_commit, scope,
                 commit_fns, created, pre>>

NextKeys ==
  \/ StoreKeyDoc
  \/ GetItemCall
  \/ GetCall

SpecKeys == InitKeys /\ [][NextKeys]_vars

\* ------------------------------------------------------------------ items
\* The keys of the key repository in SQLite's (byte) order.
KeyOrder ==
  <<JsonDumps(Tuple(<<Str("a"), Str("a")>>)), JsonDumps(Tuple(<<Str("a"), Str("b")>>)),
    JsonDumps(Tuple(<<Str("a")>>)), "a", "b", "null", "y">>

\* list(Index.items(like)): 'select distinct key, fn ... order by key' and
\* the loop over its rows.  A unique index yields (key, fn) per row; a
\* non-unique one collects the paths of a key (here as a set: their order
\* is SQLite's) and after the loop yields the last group from the loop
\* variable key, which is unbound when there was no row.
Items(T, i, like) ==
  LET rows == IF like = Null THEN BagToSet(T)
              ELSE {r \in BagToSet(T) : Like(like, r.key)}
      selected(k) == \E r \in rows : r.key = k
      keys == SelectSeq(KeyOrder, selected)
  IN IF Unique(i)
     THEN {[exc |-> "none",
            result |-> [n \in 1..Len(keys) |-> [key |-> keys[n], path |-> fn[n]]]] :
             fn \in {f \in [1..Len(keys) -> {r.fn : r \in rows}] :
                       \A n \in 1..Len(keys) : Row(keys[n], f[n]) \in rows}}
     ELSE IF rows = {}
     THEN {[exc |-> "UnboundLocalError", result |-> <<>>]}
     ELSE {[exc |-> "none",
            result |-> [n \in 1..Len(keys) |->
                          [key |-> keys[n],
                           paths |-> {r.fn : r \in {x \in rows : x.key = keys[n]}}]]]}

\* list(db.idx.<i>.items(like))
ItemsCall ==
  /\ \E i \in KeyIndexes : \E like \in {Null, "%", "z%"} : \E x \in Items(tbl[i], i, like) :
       last' = [last EXCEPT
                  !.op = "items",
                  !.lookup = [idx |-> i, key |-> IF like = Null THEN None ELSE Str(like),
                              result |-> x.result, exc |-> x.exc]]
  /\ UNCHANGED <<disk, staged, commits, tbl, last_hash, current_commit, scope,
                 commit_fns, created, pre>>

NextItems ==
  \/ StoreKeyDoc
  \/ ItemsCall

SpecItems == InitKeys /\ [][NextItems]_vars

TypeOK ==
  /\ disk \in [AllPaths -> Contents \cup {Absent}]
  /\ staged \in [AllPaths -> Contents \cup {Absent}]
  /\ Len(commits) \in 1..MaxCommits
  /\ scope \in {"none", "explicit", "facade"}
  /\ \A i \in Indexes : last_hash[i] \in 0..HEAD

\* ============================================================== claims
\* The rows of index i as a set, and Index.__getitem__ with the '='
\* comparator: the paths of the rows whose key is k.
Rows(i) == BagToSet(tbl[i])
Lookup(i, k) == {r.fn : r \in {x \in Rows(i) : x.key = k}}

\* The keys document o is indexed under by index i.
KeysOf(i, o) == {Normalize(Values(i, o)[n]) : n \in 1..Len(Values(i, o))}

\* The (projection(doc), path) pairs of index i over the .json files of tree t.
Pairs(i, t) ==
  UNION {{Row(k, p) : k \in KeysOf(i, t[p])} :
           p \in {q \in JsonPaths : t[q] # Absent}}

ScopeCommitted == last.op = "exit" /\ last.exc = "none"
ScopeAborted == last.op = "exit_fail"

\* Rows S agree with the pairs P of an index: the same set; for a unique
\* index, which holds one row per key, every row is a pair and every key
\* of a pair has a row.
Agree(i, S, P) ==
  IF Unique(i) THEN S \subseteq P /\ {r.key : r \in S} = {r.key : r \in P}
  ELSE S = P

\* C1: after a commit scope exits successfully, whatever stores and
\* deletes ran inside it, every index's rows are exactly the
\* (projection(doc), path) pairs over the .json files committed at HEAD:
\* no pair is missing and no row is of a path or key not in HEAD.
C1_RowsEqualHead ==
  ScopeCommitted =>
    \A i \in Indexes : Agree(i, Rows(i), Pairs(i, HeadTree(commits)))

\* C2: after a commit scope exits on failure, the working tree and every
\* index table are what they were when the scope was entered.
C2_AbortRestores ==
  ScopeAborted => disk = pre.disk /\ tbl = pre.tbl

\* C3: after a commit scope aborts, every file a store of that scope
\* created is gone from disk, is in no committed tree, and no index row
\* (so no lookup) names it.
C3_CreatedGone ==
  ScopeAborted =>
    \A p \in created :
      /\ disk[p] = Absent
      /\ \A n \in 1..Len(commits) : commits[n][p] = Absent
      /\ \A i \in Indexes : \A r \in Rows(i) : r.fn # p

\* A store call made inside an open with-block has returned.
StoreReturnedInScope == scope # "none" /\ last.op \in {"store", "db_store"}

\* The n-th document of the last store call is indexed by i under k: a
\* lookup of k finds its path, and on a unique index nothing else.
Indexed(n, i, k) ==
  IF Unique(i) THEN Lookup(i, k) = {last.fns[n]}
  ELSE last.fns[n] \in Lookup(i, k)

\* A later document of the same call was written to the same path, or has
\* the same key k under the unique index i.
Superseded(n, i, k) ==
  \E m \in (n + 1)..Len(last.fns) :
    \/ last.fns[m] = last.fns[n]
    \/ Unique(i) /\ k \in KeysOf(i, last.objs[m])

\* C4 as stated: inside an open commit scope, when store returns, every
\* index has the rows of every stored document: a lookup by its key
\* returns its path.
C4_StoredIsIndexed ==
  StoreReturnedInScope =>
    \A n \in 1..Len(last.fns) : \A i \in Indexes :
      \A k \in KeysOf(i, last.objs[n]) : Indexed(n, i, k)

\* C4 amended: the same, for every stored document that no later document
\* of the same call replaced (same path, or same key of a unique index).
C4_StoredIsIndexedUnlessSuperseded ==
  StoreReturnedInScope =>
    \A n \in 1..Len(last.fns) : \A i \in Indexes :
      \A k \in KeysOf(i, last.objs[n]) :
        ~Superseded(n, i, k) => Indexed(n, i, k)

\* C4 witness: a store of two documents has returned inside a with-block,
\* the first path is not in HEAD yet and is found in both indices.
C4_Witness ==
  /\ StoreReturnedInScope
  /\ Len(last.fns) = 2
  /\ last.fns[1] # last.fns[2]
  /\ HeadTree(commits)[last.fns[2]] = Absent
  /\ Lookup("by_id", "y") = {last.fns[2]}
  /\ last.fns[1] \in Lookup("by_data", last.objs[1].data)

\* C5 as stated: a successful exit with pending paths has made exactly
\* one commit, and every pending path is in the new HEAD with the content
\* stored last.  (A pending path that is on disk holds what was stored
\* last, and the commit takes the named paths from disk.)
C5_PendingCommitted ==
  (ScopeCommitted /\ last.fns # <<>>) =>
    /\ HEAD = pre.head + 1
    /\ \A p \in Range(last.fns) :
         HeadTree(commits)[p] # Absent /\ HeadTree(commits)[p] = disk[p]

\* C5 amended: a successful exit with pending paths makes exactly one
\* commit, whose tree has every pending path as it is on disk at the exit
\* (absent when it was deleted after the store); with nothing pending it
\* makes none; and no store call moves HEAD.
C5_ExitCommitsPending ==
  [][/\ (last'.op = "exit" /\ last'.exc = "none") =>
          IF last'.fns # <<>>
          THEN /\ Len(commits') = Len(commits) + 1
               /\ \A n \in 1..Len(commits) : commits'[n] = commits[n]
               /\ \A p \in AllPaths :
                    HeadTree(commits')[p] =
                      IF p \in Range(last'.fns) THEN disk'[p]
                      ELSE HeadTree(commits)[p]
          ELSE commits' = commits
     /\ (last'.op \in {"store", "db_store"}) => commits' = commits]_vars

\* C5 witness: a scope has committed two pending paths, one of them
\* deleted after it was stored.
C5_Witness ==
  /\ ScopeCommitted
  /\ Len(last.fns) = 2
  /\ HEAD = pre.head + 1
  /\ \E p \in Range(last.fns) : disk[p] = Absent
  /\ \E p \in Range(last.fns) : disk[p] # Absent /\ HeadTree(commits)[p] = disk[p]

\* C6: when the body of a commit scope raises, the caller gets that same
\* exception, HEAD is the commit it was when the scope was entered, and
\* the facade form has cleared _current_commit.
C6_AbortPropagates ==
  ScopeAborted =>
    /\ last.exc = last.body
    /\ HEAD = pre.head
    /\ last.form = "facade" => current_commit = Null

\* C7 as stated: when a store made outside any commit scope returns, its
\* implicit scope has committed the stored paths.
C7_OutsideStoreCommitted ==
  last.op = "db_store" =>
    \A p \in Range(last.fns) : HeadTree(commits)[p] = disk[p]

\* C7 amended: a store made outside any commit scope writes, stages (when
\* new) and indexes its documents through a fresh Commit object that is
\* never exited: no commit is made, HEAD's tree is what it was, and no
\* scope is left open.
C7_OutsideStoreUncommitted ==
  [][(last'.op = "db_store") =>
       /\ commits' = commits
       /\ current_commit' = Null /\ commit_fns' = commit_fns /\ scope' = scope
       /\ \A i \in Indexes : last_hash'[i] = Len(commits)
       /\ \A p \in Range(last'.fns) :
            /\ disk'[p] # Absent
            /\ IF disk[p] = Absent THEN staged'[p] # Absent
               ELSE staged'[p] = staged[p]
            /\ \A i \in Indexes : \A k \in KeysOf(i, disk'[p]) :
                 IF Unique(i)
                 THEN \E q \in Range(last'.fns) : Row(k, q) \in BagToSet(tbl'[i])
                 ELSE Row(k, p) \in BagToSet(tbl'[i])]_vars

\* C7 witness: a store outside any scope has returned; its file is staged
\* and indexed, and HEAD does not have it.
C7_Witness ==
  /\ last.op = "db_store"
  /\ scope = "none"
  /\ Len(last.fns) = 1
  /\ HeadTree(commits)[last.fns[1]] = Absent
  /\ staged[last.fns[1]] = disk[last.fns[1]]
  /\ disk[last.fns[1]] # Absent
  /\ Lookup("by_id", "y") = {last.fns[1]}

\* C8: after delete(fn...) with commit=false returns, every deleted path
\* is absent from disk and no row of any index names it.
C8_DeleteRemovesRows ==
  last.op = "delete" =>
    \A p \in Range(last.fns) :
      /\ disk[p] = Absent
      /\ \A i \in Indexes : \A r \in Rows(i) : r.fn # p

\* C8 witness: a delete of a committed document has returned, made while
\* the indices lagged behind HEAD.
C8_Witness ==
  /\ last.op = "delete"
  /\ last.lag
  /\ HeadTree(commits)[last.fns[1]] # Absent
  /\ EndsWithJson(last.fns[1])

\* C9: delete(fn..., commit=true) of one or several paths that git rm
\* removed returns without an exception, and the deleted paths are absent
\* from the tree at HEAD.
C9_DeleteCommitted ==
  last.op = "delete_commit" =>
    /\ last.exc = "none"
    /\ \A p \in Range(last.fns) : HeadTree(commits)[p] = Absent

\* C10: when a store, a delete or a commit-scope exit returns, every index
\* has been caught up: its last_hash is HEAD.
C10_CaughtUp ==
  last.op \in {"store", "db_store", "delete", "delete_commit", "exit", "exit_fail"} =>
    \A i \in Indexes : last_hash[i] = HEAD

\* C11: a unique index's table holds at most one row per key, and when a
\* store returns, every key of the document it stored last maps to that
\* document's path alone, whatever row the key had before.
C11_UniqueOneRowPerKey ==
  \A i \in Indexes : Unique(i) =>
    /\ \A r \in DOMAIN tbl[i] :
         tbl[i][r] = 1 /\ \A q \in DOMAIN tbl[i] : q.key = r.key => q = r
    /\ (last.op \in {"store", "db_store"}) =>
         \A k \in KeysOf(i, last.objs[Len(last.objs)]) :
           Lookup(i, k) = {last.fns[Len(last.fns)]}

\* C11 witness: a store has returned whose document has the key of another
\* document that is still on disk at another path; the key maps to the
\* path stored last.
C11_Witness ==
  /\ last.op \in {"store", "db_store"}
  /\ Len(last.fns) = 1
  /\ \E p \in JsonPaths :
       /\ p # last.fns[1]
       /\ disk[p] # Absent
       /\ KeysOf("by_id", disk[p]) = KeysOf("by_id", last.objs[1])
  /\ Lookup("by_id", "y") = {last.fns[1]}

\* C20: a non-unique index's table never holds the same (key, path) row
\* twice, so a lookup returns each path once.
C20_NoDuplicateRows ==
  \A i \in Indexes : ~Unique(i) => \A r \in DOMAIN tbl[i] : tbl[i][r] = 1

\* Index.count_by_key(): for each key, the number of distinct paths.
CountByKey(i) ==
  [k \in {r.key : r \in Rows(i)} |->
     Cardinality({r.fn : r \in {x \in Rows(i) : x.key = k}})]

\* Two store calls have returned, one after the other.
TwoStored == last.op = "db_store" /\ Len(last.fns) = 2

\* The registered unique indices under which both documents have the same key.
SharedKeyIdxs(o1, o2) ==
  {i \in Range(last.unique_idxs) :
     KeysOf(i, o1) # {} /\ KeysOf(i, o1) = KeysOf(i, o2)}

\* Both stores wrote the same path, the file holds the second document, and
\* count_by_key of index i reports 1 for each of its keys.
Upserted(i) ==
  /\ last.fns[1] = last.fns[2]
  /\ disk[last.fns[2]] = last.objs[2]
  /\ \A k \in KeysOf(i, last.objs[2]) :
       k \in DOMAIN CountByKey(i) /\ CountByKey(i)[k] = 1

\* C12 as stated: two documents that project to the same key under a
\* unique index are written to the same path, the second store overwrites
\* the first, and count_by_key reports 1 for the key, whatever their type
\* tags and the other registered unique indices.
C12_SameKeySamePath ==
  TwoStored =>
    \A i \in SharedKeyIdxs(last.objs[1], last.objs[2]) : Upserted(i)

\* The n-th registered unique index is the first that yields a non-empty
\* value for either document, and it yields the same value for both.
SameSignatureAt(n, o1, o2) ==
  /\ Truthy(F(last.unique_idxs[n], o1))
  /\ F(last.unique_idxs[n], o1) = F(last.unique_idxs[n], o2)
  /\ \A m \in 1..(n - 1) :
       ~Truthy(F(last.unique_idxs[m], o1)) /\ ~Truthy(F(last.unique_idxs[m], o2))

\* C12 amended: two documents with the same type tag, for which the first
\* registered unique index that yields a non-empty value yields the same
\* value, are written to the same path, the second store overwrites the
\* first, and count_by_key of that index reports 1 for the key.
C12_SameSignatureSamePath ==
  (TwoStored /\ last.objs[1].type = last.objs[2].type) =>
    \A n \in 1..Len(last.unique_idxs) :
      SameSignatureAt(n, last.objs[1], last.objs[2]) => Upserted(last.unique_idxs[n])

\* C12 witness: two different documents were stored whose first unique
\* index yields nothing and whose second yields the same key; the one file
\* holds the second document.
C12_Witness ==
  /\ TwoStored
  /\ last.objs[1] # last.objs[2]
  /\ last.objs[1].type = last.objs[2].type
  /\ Len(last.unique_idxs) = 2
  /\ SameSignatureAt(2, last.objs[1], last.objs[2])
  /\ Upserted(last.unique_idxs[2])

\* C13 as stated: with a unique index registered, storing the same record
\* twice in a row returns the same path both times, for every value the
\* unique-index projection returns for it.
C13_SameRecordSamePath ==
  (TwoStored /\ last.unique_idxs # <<>> /\ last.objs[1] = last.objs[2])
    => last.fns[1] = last.fns[2]

\* C13 amended: storing the same record twice in a row returns the same
\* path both times when a registered unique index yields a non-empty
\* value for it (otherwise each store names the file by a fresh uuid).
C13_SameSignedRecordSamePath ==
  (/\ TwoStored
   /\ last.objs[1] = last.objs[2]
   /\ \E i \in Range(last.unique_idxs) : Truthy(F(i, last.objs[1])))
    => last.fns[1] = last.fns[2]

\* C13 witness: the same record was stored twice, the second registered
\* unique index gave its signature, and both calls returned one path.
C13_Witness ==
  /\ TwoStored
  /\ last.objs[1] = last.objs[2]
  /\ Len(last.unique_idxs) = 2
  /\ ~Truthy(F(last.unique_idxs[1], last.objs[1]))
  /\ Truthy(F(last.unique_idxs[2], last.objs[1]))
  /\ last.fns[1] = last.fns[2]
  /\ last.fns[1].idx = last.unique_idxs[2]

\* The documents in the working tree, by path, in the key repository.
KeyFiles == {p \in KeyPaths : p \notin {GitIgnore} /\ disk[p] # Absent}

\* The rows of index i that name the file p.
RowsOf(i, p) == {r \in BagToSet(tbl[i]) : r.fn = p}

\* C14: whenever the projection of an indexed document returns null, the
\* index holds no row for that document, unless the index was declared
\* index_null, in which case it holds a row for it.
C14_NullPolicy ==
  \A p \in KeyFiles : \A i \in KeyIndexes :
    IsNone(F(i, disk[p])) =>
      IF IndexNull(i) THEN RowsOf(i, p) # {} ELSE RowsOf(i, p) = {}

\* C14 witness: a stored document has no data, so the index_null index
\* by_opt holds a row for its file and the plain index by_data, over the
\* same projection, holds none.
C14_Witness ==
  /\ last.op = "db_store"
  /\ \E p \in KeyFiles :
       /\ p = last.fns[Len(last.fns)]
       /\ IsNone(F("by_opt", disk[p]))
       /\ IsNone(F("by_data", disk[p]))
       /\ RowsOf("by_opt", p) # {}
       /\ RowsOf("by_data", p) = {}

\* The paths db.idx.<i>[key] returns on a non-unique index.
FoundPaths(i, key) ==
  UNION {DOMAIN x.result.paths : x \in GetItem(tbl[i], i, key)}

\* The number of elements of the list vs whose key is k.
Occurrences(vs, k) == Cardinality({n \in 1..Len(vs) : Normalize(vs[n]) = k})

\* The tuples that are proper prefixes of the tuple of vs.
ProperPrefixes(vs) == {Tuple(SubSeq(vs, 1, n)) : n \in 0..(Len(vs) - 1)}

KeyPresent(i, key) == \E r \in BagToSet(tbl[i]) : r.key = Normalize(key)

\* C16 as stated, for keys compared exactly: on a unique index idx[key]
\* returns the single path of a present key and raises KeyError for an
\* absent one, and get returns the default instead of raising; on a
\* non-unique index both never raise and return an empty list for an
\* absent key.
C16_LookupOutcomes ==
  (last.op \in {"getitem", "get"} /\ last.lookup.key # Str("%")) =>
    LET i == last.lookup.idx
        key == last.lookup.key
    IN IF Unique(i)
       THEN IF KeyPresent(i, key)
            THEN /\ last.lookup.exc = "none"
                 /\ \E r \in BagToSet(tbl[i]) :
                      r.key = Normalize(key) /\ last.lookup.result = [path |-> r.fn]
            ELSE IF last.op = "getitem"
                 THEN last.lookup.exc = "KeyError"
                 ELSE last.lookup.exc = "none" /\ last.lookup.result = Default
       ELSE /\ last.lookup.exc = "none"
            /\ ~KeyPresent(i, key) => last.lookup.result = [paths |-> EmptyBag]

\* The cases in which add_index is to reject the call.
Rejected(idx, a) ==
  \/ \E x \in idx : x.name = a.name
  \/ StartsWithUnderscore(a.name)
  \/ ~IsIdentifier(a.name)
  \/ Unique(a.i) /\ a.fts
  \/ a.auto /\ a.form = "f"

\* C17: add_index with a name already registered, a name that starts with
\* '_' or is no identifier, with unique and fts, or with auto and a
\* function projection raises an error, registers no index and creates or
\* changes no index table and no indexed_state row.
C17_RejectedLeavesNothing ==
  [][(last'.op = "add_index" /\ Rejected(last.idx, last'.args)) =>
       /\ last'.exc # "none"
       /\ last'.idx = last.idx
       /\ tbl' = tbl
       /\ last_hash' = last_hash]_vars

\* C17 witness: an index is registered under the name a and its table has
\* a row; the call that returned last asked for another projection under
\* the same name and raised.
C17_Witness ==
  /\ last.op = "add_index"
  /\ last.exc = "Exception"
  /\ last.args \notin last.idx
  /\ \E x \in last.idx :
       /\ x.name = last.args.name
       /\ x.i # last.args.i
       /\ tbl[TblName(x)] # EmptyBag
  /\ TblName(last.args) \notin DOMAIN tbl

\* The rows of projection i over the .json files committed at HEAD.
RowsAtHead(i) ==
  IndexUpdate(i, EmptyBag, 0, commits, HeadTree(commits), <<>>)

\* C18 as stated: when add_index returns, the rows of the new index are
\* the (projection(doc), path) pairs over the .json files committed at
\* HEAD and its last_hash is HEAD.
C18_CaughtUpToHead ==
  (last.op = "add_index" /\ last.exc = "none") =>
    /\ tbl[TblName(last.args)] = RowsAtHead(last.args.i)
    /\ last_hash[TblName(last.args)] = HEAD

\* C19 as stated: every registered typed record can be stored and
\* load(store(r)) equals r, with or without an auto index, and also when
\* a field of r is itself a typed record.
C19_RoundTrip ==
  /\ last.op = "store" => last.exc = "none"
  /\ last.op = "load" => last.loaded = last.r

\* C21 as stated: after a store overwrites the document at an existing
\* path with a document whose projection under an index differs, the rows
\* of that index whose path is that file are exactly the keys of the new
\* content, for every index, unique or not.  (The path is one that a
\* unique index's value names, not a uuid drawn twice.)
C21_OverwriteLeavesNewKeys ==
  (TwoStored /\ last.fns[1] = last.fns[2] /\ last.fns[2].sig \notin PathUuids) =>
    \A i \in DOMAIN tbl :
      KeysOf(i, last.objs[1]) # KeysOf(i, last.objs[2]) =>
        {r.key : r \in RowsOf(i, last.fns[2])} = KeysOf(i, last.objs[2])

\* C22 as stated: a commit-scope abort removes or changes only files that
\* were stored inside that scope: every file that was on disk when the
\* scope was entered and was not stored in it (committed, or staged by an
\* earlier store and never committed) is on disk with the same content
\* after the abort, and every index row that names such a file names a
\* file that can be loaded.
C22_AbortKeepsOtherFiles ==
  ScopeAborted =>
    \A p \in JsonPaths \ Range(last.fns) :
      pre.disk[p] # Absent =>
        /\ disk[p] = pre.disk[p]
        /\ \A i \in Indexes : \A r \in Rows(i) : r.fn = p => disk[p] # Absent

\* C23: each per-index update is one transaction: when it fails partway
\* (the projection raises on a changed document) the table of that index
\* and its last_hash are what they were before the update started, and a
\* last_hash changes only in a step in which that index's update went
\* through.
C23_UpdateAtomic ==
  [][/\ last'.failed # Null =>
          /\ tbl'[last'.failed] = tbl[last'.failed]
          /\ last_hash'[last'.failed] = last_hash[last'.failed]
     /\ \A i \in DOMAIN last_hash :
          last_hash'[i] # last_hash[i] =>
            (last'.failed # i /\ last_hash'[i] = Len(commits))]_vars

\* C23 witness: the update of by_strict had changed rows inside its
\* transaction when the projection raised, and the table and last_hash of
\* by_strict are those of before the call, behind HEAD.
C23_Witness ==
  /\ last.op = "db_store"
  /\ last.failed = "by_strict"
  /\ last.progress # last.before["by_strict"]
  /\ tbl["by_strict"] = last.before["by_strict"]
  /\ tbl["by_strict"] # EmptyBag
  /\ last_hash["by_strict"] < HEAD

\* C24: an index update run again with the same hints, with no store,
\* delete or commit in between, leaves every index table (as a multiset
\* of rows) and every last_hash as the first run left them.
C24_UpdateIdempotent ==
  [][last'.op = "update_again" => tbl' = tbl /\ last_hash' = last_hash]_vars

\* C24 witness: the update was run a second time with a hinted file that
\* has rows in both tables, after a commit (so the first run had to catch
\* up from an older hash).
C24_Witness ==
  /\ last.op = "update_again"
  /\ HEAD > 1
  /\ \E p \in Range(last.fns) : \A i \in Indexes : \E r \in Rows(i) : r.fn = p

\* The rows of index i that items(like) selects, like as recorded.
ItemRows(i, like) ==
  {r \in Rows(i) : IsNone(like) \/ Like(like.str, r.key)}

\* C25 as stated: items(like) does not fail; on a non-unique index it
\* yields one (key, paths) pair per distinct matching key, in key order,
\* with all the distinct paths of the key, as many as count_by_key
\* reports; on a unique index one (key, path) pair per row; and nothing
\* when no row matches.
C25_ItemsGrouped ==
  last.op = "items" =>
    LET i == last.lookup.idx
        rows == ItemRows(i, last.lookup.key)
        res == last.lookup.result
    IN /\ last.lookup.exc = "none"
       /\ {res[n].key : n \in 1..Len(res)} = {r.key : r \in rows}
       /\ Len(res) = Cardinality({r.key : r \in rows})
       /\ \A n \in 1..Len(res) :
            IF Unique(i) THEN Row(res[n].key, res[n].path) \in rows
            ELSE /\ res[n].paths = {r.fn : r \in {x \in rows : x.key = res[n].key}}
                 /\ Cardinality(res[n].paths) = CountByKey(i)[res[n].key]

====
